---- MODULE Spec2Model ----
(***************************************************************************)
(* Historical Data Job Engine of algo_trading_system.                      *)
(*                                                                         *)
(* The model follows src/job_manager.py (HistoricalDataJobManager), with   *)
(* the persistence collaborator of src/historical_db.py and the fetch      *)
(* collaborator of src/managers.py / src/api.py.                           *)
(*                                                                         *)
(* Scheduling is asyncio's: one event loop, cooperative tasks.  A task     *)
(* gives up the loop only at an await that really suspends: the first      *)
(* scheduling of the task, the wait for a batch (asyncio.gather), the      *)
(* inter-batch asyncio.sleep, and an await inside a progress callback      *)
(* (server.broadcast_job_update awaits websocket.send_text).  Registry     *)
(* calls are synchronous and run only while no task holds the loop         *)
(* (LoopIdle).  Task.cancel() makes the task's next resumption raise       *)
(* CancelledError at its suspension point; CancelledError is a             *)
(* BaseException (Python >= 3.8), so `except Exception` does not catch it  *)
(* and `finally` runs.  A task cancelled before its first step never       *)
(* enters the coroutine body, so not even its `finally` runs.              *)
(*                                                                         *)
(* Times are integers: seconds for dates, clock ticks for datetime.now().  *)
(* A candle's 'datetime' is a fixed-format string in the source; it is     *)
(* modelled by its rank, so that string order is integer order, and NoDt   *)
(* stands for a missing or empty 'datetime'.                               *)
(***************************************************************************)
EXTENDS Integers, Sequences, FiniteSets, TLC

VARIABLES
    jobs,               \* self.jobs: job_id -> HistoricalDataJob (the registry dict)
    held,               \* job objects still referenced by a task after leaving the registry
    next_id,            \* number of ids handed out by uuid.uuid4()
    active_jobs,        \* self.active_jobs: job_id -> task
    progress_callbacks, \* self.progress_callbacks: job_id -> list of callbacks
    tasks,              \* the asyncio tasks created by start_job, by task number
    db_available,       \* get_historical_db() is a HistoricalDataDB (TRUE) or a DummyHistoricalDB
    db_status,          \* table job_metadata: job_id -> status
    db_data,            \* table historical_data: job_id -> rows
    now,                \* datetime.now()
    ret,                \* the registry call made by the last step and what it returned
    was_completed,      \* history: ids of jobs that have held status COMPLETED
    store_calls,        \* history: ids of jobs whose data was handed to store_job_data
    limits,             \* the bounds this run keeps to: one of Scenarios
    plan,               \* harness of the chunk planner: inputs and output
    merge               \* harness of the merge/dedupe stage: input and outputs

vars == <<jobs, held, next_id, active_jobs, progress_callbacks, tasks, db_available,
          db_status, db_data, now, ret, was_completed, store_calls, limits, plan, merge>>

engine_vars == <<jobs, held, next_id, active_jobs, progress_callbacks, tasks, db_available,
                 db_status, db_data, now, ret, was_completed, store_calls, limits>>

----------------------------------------------------------------------------
\* Bounds of the model

MaxTasks == 2         \* executor tasks ever scheduled for the job of one chunk
MaxClock == 1         \* clock ticks of the longer clock
MaxCallbacks == 1     \* callbacks registered at a time for the job of one chunk
MaxChunks == 4        \* planned chunks of the job of the many-chunks scenario
MaxPlanStart == 2     \* planner harness: latest start
MaxPlanLen == 9       \* planner harness: longest range
MaxPlanSpan == 4      \* planner harness: longest chunk span
MaxMergeLen == 3      \* merge harness: longest input list
MaxMergeDt == 3       \* merge harness: number of distinct timestamps

----------------------------------------------------------------------------
\* Constants of the program

max_parallel_chunks == 10
safe_candles == 950
Day == 86400
market_seconds_per_day == 22500

NoTime == -1     \* completed_at = None
BadDate == -1    \* a date string datetime.fromisoformat rejects
NoDt == -1       \* candle without a usable 'datetime'
NoError == ""    \* error_message = None

\* the last step was no call that returns a value
NoCall == [op |-> "none", job_id |-> 0, value |-> FALSE]

Returned(op, job_id, value) == [op |-> op, job_id |-> job_id, value |-> value]

PENDING == "pending"
RUNNING == "running"
COMPLETED == "completed"
FAILED == "failed"
CANCELLED == "cancelled"

Terminal == {COMPLETED, FAILED, CANCELLED}

----------------------------------------------------------------------------
\* Helpers

Min(a, b) == IF a < b THEN a ELSE b

----------------------------------------------------------------------------
\* Chunk planner

\* variant: 950 candles of market time, rounded up to whole calendar days
_calculate_chunk_duration_rounded_up(interval) ==
    IF interval = "1second" THEN safe_candles
    ELSE IF interval = "1minute" THEN 4 * Day
    ELSE IF interval = "5minute" THEN 18 * Day
    ELSE IF interval = "30minute" THEN 107 * Day
    ELSE IF interval = "1day" THEN 1330 * Day
    ELSE 30 * Day

\* _calculate_chunk_duration, in seconds
_calculate_chunk_duration(interval) ==
    IF interval = "1second" THEN safe_candles
    ELSE IF interval = "1minute" THEN 3 * Day
    ELSE IF interval = "5minute" THEN 15 * Day
    ELSE IF interval = "30minute" THEN 90 * Day
    ELSE IF interval = "1day" THEN 950 * Day
    ELSE 30 * Day

\* variant: the chunk end is not capped at the end of the range
RECURSIVE GenerateFrom_uncapped(_, _, _)
GenerateFrom_uncapped(current_start, end_dt, chunk_duration) ==
    IF current_start < end_dt
    THEN LET current_end == current_start + chunk_duration
         IN  <<<<current_start, current_end>>>>
                \o GenerateFrom_uncapped(current_end, end_dt, chunk_duration)
    ELSE <<>>

\* _generate_chunks: the while loop, one iteration per unfolding
RECURSIVE GenerateFrom(_, _, _)
GenerateFrom(current_start, end_dt, chunk_duration) ==
    IF current_start < end_dt
    THEN LET current_end == Min(current_start + chunk_duration, end_dt)
         IN  <<<<current_start, current_end>>>> \o GenerateFrom(current_end, end_dt, chunk_duration)
    ELSE <<>>

_generate_chunks(start_dt, end_dt, chunk_duration) ==
    GenerateFrom(start_dt, end_dt, chunk_duration)

\* the table interval_seconds, with its default for other intervals
interval_seconds(interval) ==
    IF interval = "1second" THEN 1
    ELSE IF interval = "1minute" THEN 60
    ELSE IF interval = "5minute" THEN 300
    ELSE IF interval = "30minute" THEN 1800
    ELSE IF interval = "1day" THEN market_seconds_per_day
    ELSE Day

\* _estimate_candles(interval, total_duration), total_duration in seconds.
\* 1day: int(days * 5 / 7) with days the whole days of the duration.
\* Otherwise int(total_days * 5 / 7 * market_seconds_per_day / interval_seconds)
\* with total_days = total_duration / 86400, that is
\* total_duration * 125 / (672 * interval_seconds) with the factor
\* 5 * market_seconds_per_day / (7 * 86400) reduced by 900; the quotient is
\* taken in two parts so that the products stay small
_estimate_candles(interval, total_duration) ==
    IF interval = "1day"
    THEN ((total_duration \div Day) * 5) \div 7
    ELSE LET numerator == (5 * market_seconds_per_day) \div 900
             denominator == ((7 * Day) \div 900) * interval_seconds(interval)
         IN  (total_duration \div denominator) * numerator
                + ((total_duration % denominator) * numerator) \div denominator

----------------------------------------------------------------------------
\* Merge / dedupe

\* variant: only the previous kept timestamp is remembered
RECURSIVE Dedupe_adjacent(_, _)
Dedupe_adjacent(all_data, seen_times) ==
    IF all_data = <<>> THEN <<>>
    ELSE LET candle == Head(all_data)
             dt == candle.datetime
         IN  IF dt # NoDt /\ dt \notin seen_times
             THEN <<candle>> \o Dedupe_adjacent(Tail(all_data), {dt})
             ELSE Dedupe_adjacent(Tail(all_data), seen_times)

\* variant: the last candle of a timestamp is kept instead of the first
RECURSIVE Dedupe_last_wins(_, _)
Dedupe_last_wins(all_data, seen_times) ==
    IF all_data = <<>> THEN <<>>
    ELSE LET candle == Head(all_data)
             dt == candle.datetime
             rest == Tail(all_data)
         IN  IF dt # NoDt /\ \A k \in 1..Len(rest) : rest[k].datetime # dt
             THEN <<candle>> \o Dedupe_last_wins(rest, seen_times)
             ELSE Dedupe_last_wins(rest, seen_times)

\* the loop over all_data: keep a candle when its datetime is usable and unseen
RECURSIVE Dedupe(_, _)
Dedupe(all_data, seen_times) ==
    IF all_data = <<>> THEN <<>>
    ELSE LET candle == Head(all_data)
             dt == candle.datetime
         IN  IF dt # NoDt /\ dt \notin seen_times
             THEN <<candle>> \o Dedupe(Tail(all_data), seen_times \cup {dt})
             ELSE Dedupe(Tail(all_data), seen_times)

\* list.sort(key=datetime): stable, ascending
RECURSIVE InsertSorted(_, _)
InsertSorted(sorted, candle) ==
    IF sorted = <<>> THEN <<candle>>
    ELSE IF candle.datetime < Head(sorted).datetime
         THEN <<candle>> \o sorted
         ELSE <<Head(sorted)>> \o InsertSorted(Tail(sorted), candle)

\* variant: the sort is left out
SortByDatetime_unsorted(data) == data

RECURSIVE SortByDatetime(_)
SortByDatetime(data) ==
    IF data = <<>> THEN <<>>
    ELSE InsertSorted(SortByDatetime(SubSeq(data, 1, Len(data) - 1)), data[Len(data)])

_process_data(all_data) ==
    IF all_data = <<>> THEN <<>>
    ELSE SortByDatetime(Dedupe(all_data, {}))

----------------------------------------------------------------------------
\* Dictionaries

Put(f, k, v) == [x \in (DOMAIN f) \cup {k} |-> IF x = k THEN v ELSE f[x]]

Drop(f, k) == [x \in (DOMAIN f) \ {k} |-> f[x]]

EmptyDict == [x \in {} |-> 0]

----------------------------------------------------------------------------
\* Requests of the callers (symbol, exchange and the extra parameters are
\* passed through unread by the engine and are left out)

Requests ==
    { [interval |-> "1minute", from_date |-> 0, to_date |-> MaxChunks * 3 * Day],
      [interval |-> "1minute", from_date |-> 0,
       to_date |-> (max_parallel_chunks + 1) * 3 * Day],
      [interval |-> "1minute", from_date |-> 0, to_date |-> 4 * Day],
      [interval |-> "1day", from_date |-> 0, to_date |-> 30 * Day],
      [interval |-> "1day", from_date |-> Day, to_date |-> Day],
      [interval |-> "1day", from_date |-> BadDate, to_date |-> 30 * Day] }

DatesParse(job) == job.from_date # BadDate /\ job.to_date # BadDate

PlannedChunks(job) ==
    IF DatesParse(job)
    THEN Len(_generate_chunks(job.from_date, job.to_date, _calculate_chunk_duration(job.interval)))
    ELSE 0

RECURSIVE ChunkLoad(_, _)
ChunkLoad(reg, ids) ==
    IF ids = {} THEN 0
    ELSE LET j == CHOOSE x \in ids : TRUE
         IN  PlannedChunks(reg[j]) + ChunkLoad(reg, ids \ {j})

\* what one `await callback(job)` does: the callback returns at once
\* (broadcast_job_update without a connected websocket), suspends on I/O
\* (websocket.send_text) and returns later, or raises
CallbackBehaviours == {"returns", "awaits", "raises"}

----------------------------------------------------------------------------
\* Job objects and tasks

\* HistoricalDataJob(status=PENDING, progress=JobProgress(), ...)
HistoricalDataJob(req) ==
    [interval |-> req.interval, from_date |-> req.from_date, to_date |-> req.to_date,
     status |-> PENDING, percentage |-> 0, candles_fetched |-> 0, total_chunks |-> 0,
     completed_at |-> NoTime, error_message |-> NoError,
     result_data |-> <<>>]

\* the coroutine _execute_job(job) wrapped by asyncio.create_task
NewTask(j) ==
    [job |-> j, pc |-> "start", must_cancel |-> FALSE, chunks |-> <<>>, all_data |-> <<>>,
     chunk_num |-> 0, i |-> 0, results |-> <<>>, idx |-> 0, unique_data |-> <<>>,
     ok_chunks |-> {},   \* history: numbers of the chunks whose fetch returned candles
     cbs |-> <<>>, cb |-> 0, cblive |-> FALSE, cbwait |-> FALSE,
     cb_raised |-> {},   \* history: the callbacks that raised during the current update
     out_of_order |-> FALSE,  \* history: a fetch settled before one of an earlier chunk
     chunks_fetched |-> 0]    \* history: the chunks_fetched handed to store_job_data

Ended(j, how) == [NewTask(j) EXCEPT !.pc = how]

TaskIds == 1..Len(tasks)

UpdateSites == {"up0", "up5", "upChunk", "up95", "up98", "up100", "upFail"}

Finished(t) == tasks[t].pc \in {"done", "cancelled"}

\* the task is parked at an await that suspended (or has not run yet, or has ended)
Suspended(t) ==
    \/ tasks[t].pc \in {"start", "gather", "sleep", "done", "cancelled"}
    \/ tasks[t].cbwait

\* no task holds the event loop
LoopIdle == \A t \in TaskIds : Suspended(t)

LiveTasksOf(j) == {t \in TaskIds : tasks[t].job = j /\ ~Finished(t)}

\* the job object a task holds a reference to
JobObj(j) == IF j \in DOMAIN jobs THEN jobs[j] ELSE held[j]

----------------------------------------------------------------------------
\* Persistence collaborator (src/historical_db.py); DummyHistoricalDB does nothing

store_job_metadata(st, j, status) ==
    IF db_available THEN Put(st, j, status) ELSE st

update_job_status(st, j, status) ==
    IF db_available /\ j \in DOMAIN st THEN [st EXCEPT ![j] = status] ELSE st

\* store_job_data: refuses empty data, else rewrites the metadata row as
\* 'completed' and inserts one row per candle
store_job_data_status(st, j, data) ==
    IF db_available /\ data # <<>> THEN Put(st, j, COMPLETED) ELSE st

store_job_data_rows(rows, j, data) ==
    IF db_available /\ data # <<>>
    THEN Put(rows, j, (IF j \in DOMAIN rows THEN rows[j] ELSE <<>>) \o data)
    ELSE rows

\* what one call of the collaborator does: it performs the statement and
\* returns True, it returns False without performing it (DummyHistoricalDB,
\* or an error HistoricalDataDB caught itself), or it raises
DbOutcomes == {"ok", "false", "raises"}

\* try: get_historical_db().update_job_status(...) / store_job_metadata(...)
\* except Exception: logged; the statement after the try runs either way
Logged(outcome, performed, st) == IF outcome = "ok" THEN performed ELSE st

----------------------------------------------------------------------------
\* Registry operations (synchronous: they run while no task holds the loop)

create_job(req, db) ==
    /\ LoopIdle
    /\ next_id < limits.jobs
    /\ ChunkLoad(jobs, DOMAIN jobs) + PlannedChunks(req) <= limits.chunks
    /\ LET job_id == next_id + 1
       IN  /\ next_id' = job_id
           /\ jobs' = Put(jobs, job_id, HistoricalDataJob(req))
           /\ db_status' = Logged(db, store_job_metadata(db_status, job_id, PENDING),
                                  db_status)
           /\ ret' = Returned("create_job", job_id, TRUE)
    /\ UNCHANGED <<held, active_jobs, progress_callbacks, tasks, db_available, db_data,
                   now, was_completed, store_calls, limits, plan, merge>>

\* variant: the check `job_id in self.active_jobs` is missing
start_job_unchecked(job_id, db) ==
    /\ LoopIdle
    /\ IF job_id \notin DOMAIN jobs
       THEN /\ ret' = Returned("start_job", job_id, FALSE)
            /\ UNCHANGED <<jobs, active_jobs, tasks, db_status>>
       ELSE /\ Len(tasks) < limits.tasks
            /\ jobs' = [jobs EXCEPT ![job_id].status = RUNNING]
            /\ db_status' = Logged(db, update_job_status(db_status, job_id, RUNNING),
                                   db_status)
            /\ tasks' = Append(tasks, NewTask(job_id))
            /\ active_jobs' = Put(active_jobs, job_id, Len(tasks) + 1)
            /\ ret' = Returned("start_job", job_id, TRUE)
    /\ UNCHANGED <<held, next_id, progress_callbacks, db_available, db_data, now,
                   was_completed, store_calls, limits, plan, merge>>

start_job(job_id, db) ==
    /\ LoopIdle
    /\ IF job_id \notin DOMAIN jobs \/ job_id \in DOMAIN active_jobs
       THEN /\ ret' = Returned("start_job", job_id, FALSE)
            /\ UNCHANGED <<jobs, active_jobs, tasks, db_status>>
       ELSE /\ Len(tasks) < limits.tasks
            /\ jobs' = [jobs EXCEPT ![job_id].status = RUNNING]
            /\ db_status' = Logged(db, update_job_status(db_status, job_id, RUNNING),
                                   db_status)
            /\ tasks' = Append(tasks, NewTask(job_id))
            /\ active_jobs' = Put(active_jobs, job_id, Len(tasks) + 1)
            /\ ret' = Returned("start_job", job_id, TRUE)
    /\ UNCHANGED <<held, next_id, progress_callbacks, db_available, db_data, now,
                   was_completed, store_calls, limits, plan, merge>>

RECURSIVE CountCallbacks(_)
CountCallbacks(ids) ==
    IF ids = {} THEN 0
    ELSE LET j == CHOOSE x \in ids : TRUE
         IN  Len(progress_callbacks[j]) + CountCallbacks(ids \ {j})

RegisteredCallbacks == CountCallbacks(DOMAIN progress_callbacks)

\* variant: the task is not cancelled
Cancel_forgotten(ts, t) == ts

\* task.cancel(): a task that has ended ignores it
Cancel(ts, t) ==
    IF ts[t].pc \in {"done", "cancelled"} THEN ts ELSE [ts EXCEPT ![t].must_cancel = TRUE]

\* variant: the check `job_id in self.active_jobs` is missing
cancel_job_unchecked(job_id, db) ==
    /\ LoopIdle
    /\ tasks' = IF job_id \in DOMAIN active_jobs
                THEN Cancel(tasks, active_jobs[job_id]) ELSE tasks
    /\ IF job_id \in DOMAIN jobs
       THEN /\ jobs' = [jobs EXCEPT ![job_id].status = CANCELLED,
                                    ![job_id].completed_at = now]
            /\ db_status' = Logged(db, update_job_status(db_status, job_id, CANCELLED),
                                   db_status)
       ELSE UNCHANGED <<jobs, db_status>>
    /\ ret' = Returned("cancel_job", job_id, TRUE)
    /\ UNCHANGED <<held, next_id, active_jobs, progress_callbacks, db_available, db_data,
                   now, was_completed, store_calls, limits, plan, merge>>

cancel_job(job_id, db) ==
    /\ LoopIdle
    /\ IF job_id \in DOMAIN active_jobs
       THEN /\ tasks' = Cancel(tasks, active_jobs[job_id])
            /\ IF job_id \in DOMAIN jobs
               THEN /\ jobs' = [jobs EXCEPT ![job_id].status = CANCELLED,
                                            ![job_id].completed_at = now]
                    /\ db_status' = Logged(db, update_job_status(db_status, job_id,
                                                                   CANCELLED), db_status)
               ELSE UNCHANGED <<jobs, db_status>>
            /\ ret' = Returned("cancel_job", job_id, TRUE)
       ELSE /\ ret' = Returned("cancel_job", job_id, FALSE)
            /\ UNCHANGED <<jobs, tasks, db_status>>
    /\ UNCHANGED <<held, next_id, active_jobs, progress_callbacks, db_available, db_data,
                   now, was_completed, store_calls, limits, plan, merge>>

\* callbacks are named by their position in the job's list
add_progress_callback(job_id) ==
    /\ ret' = NoCall
    /\ LoopIdle
    /\ RegisteredCallbacks < limits.callbacks
    /\ progress_callbacks' =
          Put(progress_callbacks, job_id,
              IF job_id \in DOMAIN progress_callbacks
              THEN Append(progress_callbacks[job_id], Len(progress_callbacks[job_id]) + 1)
              ELSE <<1>>)
    \* a task iterating this very list sees the appended callback
    /\ tasks' = [t \in TaskIds |->
                    IF tasks[t].job = job_id /\ tasks[t].cblive
                    THEN [tasks[t] EXCEPT !.cbs = Append(@, Len(@) + 1)]
                    ELSE tasks[t]]
    /\ UNCHANGED <<jobs, held, next_id, active_jobs, db_available, db_status, db_data,
                   now, was_completed, store_calls, limits, plan, merge>>

\* variant: the status of the job is not looked at
cleanup_old_jobs_any_status(max_age) ==
    /\ ret' = NoCall
    /\ LoopIdle
    /\ LET cutoff_time == now - max_age
           jobs_to_remove == {j \in DOMAIN jobs :
                                 /\ jobs[j].completed_at # NoTime
                                 /\ jobs[j].completed_at < cutoff_time}
       IN  /\ jobs_to_remove # {}
           /\ jobs' = [j \in (DOMAIN jobs) \ jobs_to_remove |-> jobs[j]]
           /\ held' = [j \in (DOMAIN held) \cup {x \in jobs_to_remove : LiveTasksOf(x) # {}} |->
                          IF j \in DOMAIN held THEN held[j] ELSE jobs[j]]
           /\ progress_callbacks' =
                 [j \in (DOMAIN progress_callbacks) \ jobs_to_remove |-> progress_callbacks[j]]
           \* a task iterating a removed list keeps the list, which is no longer the dict's
           /\ tasks' = [t \in TaskIds |->
                           IF tasks[t].job \in jobs_to_remove
                           THEN [tasks[t] EXCEPT !.cblive = FALSE]
                           ELSE tasks[t]]
    /\ UNCHANGED <<next_id, active_jobs, db_available, db_status, db_data, now, was_completed, store_calls, limits, plan, merge>>

\* cleanup_old_jobs(max_age_hours): max_age in clock ticks
cleanup_old_jobs(max_age) ==
    /\ ret' = NoCall
    /\ LoopIdle
    /\ LET cutoff_time == now - max_age
           jobs_to_remove == {j \in DOMAIN jobs :
                                 /\ jobs[j].status \in Terminal
                                 /\ jobs[j].completed_at # NoTime
                                 /\ jobs[j].completed_at < cutoff_time}
       IN  /\ jobs_to_remove # {}
           /\ jobs' = [j \in (DOMAIN jobs) \ jobs_to_remove |-> jobs[j]]
           /\ held' = [j \in (DOMAIN held) \cup {x \in jobs_to_remove : LiveTasksOf(x) # {}} |->
                          IF j \in DOMAIN held THEN held[j] ELSE jobs[j]]
           /\ progress_callbacks' =
                 [j \in (DOMAIN progress_callbacks) \ jobs_to_remove |-> progress_callbacks[j]]
           \* a task iterating a removed list keeps the list, which is no longer the dict's
           /\ tasks' = [t \in TaskIds |->
                           IF tasks[t].job \in jobs_to_remove
                           THEN [tasks[t] EXCEPT !.cblive = FALSE]
                           ELSE tasks[t]]
    /\ UNCHANGED <<next_id, active_jobs, db_available, db_status, db_data, now, was_completed, store_calls, limits, plan, merge>>

\* time passes; only differences between now and completed_at are ever read
\* (cleanup_old_jobs), so the clock starts with the first completion stamp
Tick ==
    /\ ret' = NoCall
    /\ LoopIdle
    /\ now < limits.clock
    /\ \E j \in DOMAIN jobs : jobs[j].completed_at # NoTime
    /\ now' = now + 1
    /\ UNCHANGED <<jobs, held, next_id, active_jobs, progress_callbacks, tasks, db_available,
                   db_status, db_data, was_completed, store_calls, limits, plan, merge>>

----------------------------------------------------------------------------
\* The executor task: _execute_job, one action per stretch of code that runs
\* without giving up the event loop

\* what the fetch collaborator returns for chunk number n = (chunk_start, chunk_end):
\* a candle at each end of the chunk, so that neighbouring chunks overlap
ChunkCandles(n, chunk) ==
    << [datetime |-> chunk[1], src |-> n], [datetime |-> chunk[2], src |-> n] >>

\* outcome of trading_system.historical._get_single_data for one chunk: a
\* response with candles, an error response, None, an exception, or a response
\* whose 'Success' is not a list (the upstream answer is used unvalidated)
FetchOutcomes == {"ok", "error", "none", "raise", "malformed"}

\* variant: the exception of the fetch is not caught
_fetch_single_chunk_rethrows(outcome) == IF outcome = "raise" THEN "exception" ELSE outcome

\* _fetch_single_chunk: the response, or None when the fetch raised
_fetch_single_chunk(outcome) == IF outcome = "raise" THEN "none" ELSE outcome

\* (i + idx + 1) / len(chunks) * 90 + 5
ChunkPct(i, idx, n) == (((i + idx + 1) * 90) \div n) + 5

\* write the task's and the job's new values
Commit(t, nt, nj) ==
    /\ tasks' = [tasks EXCEPT ![t] = nt]
    /\ IF tasks[t].job \in DOMAIN jobs
       THEN jobs' = [jobs EXCEPT ![tasks[t].job] = nj] /\ UNCHANGED held
       ELSE held' = [held EXCEPT ![tasks[t].job] = nj] /\ UNCHANGED jobs

\* _update_progress, up to the loop over the callbacks
ProgressJob(job, percentage) ==
    [job EXCEPT !.percentage = percentage, !.candles_fetched = Len(job.result_data)]

ProgressTask(task, site) ==
    [task EXCEPT !.pc = site,
                 !.cbs = IF task.job \in DOMAIN progress_callbacks
                         THEN progress_callbacks[task.job] ELSE <<>>,
                 !.cblive = task.job \in DOMAIN progress_callbacks,
                 !.cb = 1, !.cbwait = FALSE, !.cb_raised = {}]

\* _update_progress has returned
UpdateDone(t, site) ==
    /\ tasks[t].pc = site
    /\ ~tasks[t].cbwait
    /\ tasks[t].cb > Len(tasks[t].cbs)

AfterUpdate(task) ==
    [task EXCEPT !.cbs = <<>>, !.cb = 0, !.cblive = FALSE, !.cb_raised = {}]

\* the finally clause, and the end of the task
Finally(t, how) ==
    LET j == tasks[t].job
    IN  /\ active_jobs' = IF j \in DOMAIN active_jobs THEN Drop(active_jobs, j) ELSE active_jobs
        /\ tasks' = [tasks EXCEPT ![t] = Ended(j, how)]
        /\ held' = IF j \in DOMAIN held /\ LiveTasksOf(j) = {t} THEN Drop(held, j) ELSE held

\* CancelledError raised at the await the task is parked at: only finally runs
Cancelled(t) ==
    /\ Finally(t, "cancelled")
    /\ UNCHANGED <<jobs, next_id, progress_callbacks, db_available, db_status, db_data, now,
                   was_completed, store_calls, limits, plan, merge>>

\* first step of the task
ExecStart(t) ==
    /\ ret' = NoCall
    /\ LoopIdle
    /\ tasks[t].pc = "start"
    /\ IF tasks[t].must_cancel
       THEN \* the coroutine is never entered: no try, no finally
            /\ tasks' = [tasks EXCEPT ![t] = Ended(tasks[t].job, "cancelled")]
            /\ held' = IF tasks[t].job \in DOMAIN held /\ LiveTasksOf(tasks[t].job) = {t}
                       THEN Drop(held, tasks[t].job) ELSE held
            /\ UNCHANGED jobs
       ELSE Commit(t, ProgressTask(tasks[t], "up0"), ProgressJob(JobObj(tasks[t].job), 0))
    /\ UNCHANGED <<next_id, active_jobs, progress_callbacks, db_available, db_status, db_data,
                   now, was_completed, store_calls, limits, plan, merge>>

\* variant: the try encloses the whole loop, so the first exception ends it
InvokeCallback_loop_guarded(t, behaviour) ==
    /\ ret' = NoCall
    /\ tasks[t].pc \in UpdateSites
    /\ ~tasks[t].cbwait
    /\ tasks[t].cb <= Len(tasks[t].cbs)
    /\ tasks' = [tasks EXCEPT ![t] =
                    IF behaviour = "awaits"
                    THEN [@ EXCEPT !.cbwait = TRUE]
                    ELSE IF behaviour = "raises"
                    THEN [@ EXCEPT !.cb = Len(tasks[t].cbs) + 1,
                                   !.cb_raised = @ \cup {tasks[t].cb}]
                    ELSE [@ EXCEPT !.cb = @ + 1]]
    /\ UNCHANGED <<jobs, held, next_id, active_jobs, progress_callbacks, db_available,
                   db_status, db_data, now, was_completed, store_calls, limits, plan, merge>>

\* for callback in self.progress_callbacks[job_id]:
\*     try: await callback(job)
\*     except Exception: logged
InvokeCallback(t, behaviour) ==
    /\ ret' = NoCall
    /\ tasks[t].pc \in UpdateSites
    /\ ~tasks[t].cbwait
    /\ tasks[t].cb <= Len(tasks[t].cbs)
    /\ tasks' = [tasks EXCEPT ![t] =
                    IF behaviour = "awaits"
                    THEN [@ EXCEPT !.cbwait = TRUE]
                    ELSE IF behaviour = "raises"
                    THEN [@ EXCEPT !.cb = @ + 1, !.cb_raised = @ \cup {tasks[t].cb}]
                    ELSE [@ EXCEPT !.cb = @ + 1]]
    /\ UNCHANGED <<jobs, held, next_id, active_jobs, progress_callbacks, db_available,
                   db_status, db_data, now, was_completed, store_calls, limits, plan, merge>>

\* variant: a cancellation requested during the callback's I/O is not delivered
ResumeCallback_uncancelled(t) ==
    /\ ret' = NoCall
    /\ LoopIdle
    /\ tasks[t].cbwait
    /\ tasks' = [tasks EXCEPT ![t].cbwait = FALSE, ![t].cb = @ + 1]
    /\ UNCHANGED <<jobs, held, next_id, active_jobs, progress_callbacks, db_available,
                   db_status, db_data, now, was_completed, store_calls, limits, plan, merge>>

\* the I/O a callback awaited is over
ResumeCallback(t) ==
    /\ ret' = NoCall
    /\ LoopIdle
    /\ tasks[t].cbwait
    /\ IF tasks[t].must_cancel
       THEN Cancelled(t)
       ELSE /\ tasks' = [tasks EXCEPT ![t].cbwait = FALSE, ![t].cb = @ + 1]
            /\ UNCHANGED <<jobs, held, next_id, active_jobs, progress_callbacks, db_available,
                           db_status, db_data, now, was_completed, store_calls, limits, plan, merge>>

\* variant: the except clause stamps the time and notifies, but leaves the status
Fail_status_kept(t, db, e) ==
    LET j == tasks[t].job
        job == [JobObj(j) EXCEPT !.error_message = e, !.completed_at = now]
    IN  /\ Commit(t, ProgressTask(AfterUpdate(tasks[t]), "upFail"), ProgressJob(job, 0))
        /\ db_status' = Logged(db, update_job_status(db_status, j, FAILED), db_status)

\* except Exception: the job fails, then _update_progress(job, 0, "Failed", ...)
Fail(t, db, e) ==
    LET j == tasks[t].job
        job == [JobObj(j) EXCEPT !.status = FAILED, !.error_message = e,
                                 !.completed_at = now]
    IN  /\ Commit(t, ProgressTask(AfterUpdate(tasks[t]), "upFail"), ProgressJob(job, 0))
        /\ db_status' = Logged(db, update_job_status(db_status, j, FAILED), db_status)

\* variant: every remaining chunk is handed to asyncio.gather at once
StartBatch_uncapped(task, i) ==
    LET size == Len(task.chunks) - i
    IN  [task EXCEPT !.pc = "gather", !.i = i, !.idx = 0,
                     !.results = [k \in 1..size |-> "inflight"],
                     !.chunk_num = @ + size]

\* tasks of one batch handed to asyncio.gather
StartBatch(task, i) ==
    LET size == Min(i + max_parallel_chunks, Len(task.chunks)) - i
    IN  [task EXCEPT !.pc = "gather", !.i = i, !.idx = 0,
                     !.results = [k \in 1..size |-> "inflight"],
                     !.chunk_num = @ + size]

\* after _update_progress(0): parse the dates, plan the chunks, _update_progress(5)
Plan(t, db) ==
    /\ ret' = NoCall
    /\ UpdateDone(t, "up0")
    /\ LET j == tasks[t].job
           job == JobObj(j)
       IN  IF ~DatesParse(job)
           THEN Fail(t, db, "Invalid isoformat string")
           ELSE LET chunks == _generate_chunks(job.from_date, job.to_date,
                                               _calculate_chunk_duration(job.interval))
                IN  /\ Commit(t, ProgressTask([AfterUpdate(tasks[t]) EXCEPT !.chunks = chunks], "up5"),
                              ProgressJob([job EXCEPT !.total_chunks = Len(chunks)], 5))
                    /\ UNCHANGED db_status
    /\ UNCHANGED <<next_id, active_jobs, progress_callbacks, db_available, db_data, now, was_completed, store_calls, limits, plan, merge>>

\* after _update_progress(5): all_data = [], chunk_num = 0, first batch (or no batch at all)
FirstBatch(t) ==
    /\ ret' = NoCall
    /\ UpdateDone(t, "up5")
    /\ LET task == [AfterUpdate(tasks[t]) EXCEPT !.all_data = <<>>, !.chunk_num = 0]
       IN  IF Len(task.chunks) = 0
           THEN Commit(t, ProgressTask(task, "up95"), ProgressJob(JobObj(task.job), 95))
           ELSE Commit(t, StartBatch(task, 0), JobObj(task.job))
    /\ UNCHANGED <<next_id, active_jobs, progress_callbacks, db_available, db_status, db_data,
                   now, was_completed, store_calls, limits, plan, merge>>

\* one chunk fetch of the batch settles
FetchSettle(t, k, outcome) ==
    /\ ret' = NoCall
    /\ LoopIdle
    /\ tasks[t].pc = "gather"
    /\ ~tasks[t].must_cancel
    /\ k \in 1..Len(tasks[t].results)
    /\ tasks[t].results[k] = "inflight"
    /\ tasks' = [tasks EXCEPT ![t].results[k] = _fetch_single_chunk(outcome),
                              ![t].ok_chunks = IF outcome = "ok"
                                               THEN @ \cup {tasks[t].i + k} ELSE @,
                              ![t].out_of_order =
                                  @ \/ \E e \in 1..(k - 1) : tasks[t].results[e] = "inflight"]
    /\ UNCHANGED <<jobs, held, next_id, active_jobs, progress_callbacks, db_available,
                   db_status, db_data, now, was_completed, store_calls, limits, plan, merge>>

\* await asyncio.gather(...) returns, or raises CancelledError
GatherDone(t) ==
    /\ ret' = NoCall
    /\ LoopIdle
    /\ tasks[t].pc = "gather"
    /\ IF tasks[t].must_cancel
       THEN Cancelled(t)
       ELSE /\ \A k \in 1..Len(tasks[t].results) : tasks[t].results[k] # "inflight"
            /\ tasks' = [tasks EXCEPT ![t].pc = "res", ![t].idx = 0]
            /\ UNCHANGED <<jobs, held, next_id, active_jobs, progress_callbacks, db_available,
                           db_status, db_data, now, was_completed, store_calls, limits, plan, merge>>

\* variant: the candles are accumulated in the order the fetches completed
\* (for a batch whose later chunk settled first, the later chunk's come first)
extend_as_completed(task, chunk_data) ==
    IF task.out_of_order THEN chunk_data \o task.all_data ELSE task.all_data \o chunk_data

\* all_data.extend(chunk_data)
extend(task, chunk_data) == task.all_data \o chunk_data

\* for idx, result in enumerate(batch_results)
ProcessResult(t, db) ==
    /\ ret' = NoCall
    /\ tasks[t].pc = "res"
    /\ LET task == tasks[t]
           n == task.i + task.idx + 1
       IN  IF task.idx >= Len(task.results)
           THEN /\ Commit(t, [task EXCEPT !.pc = "sleep", !.results = <<>>, !.idx = 0],
                          JobObj(task.job))
                /\ UNCHANGED db_status
           ELSE LET result == task.results[task.idx + 1]
                IN  IF result = "exception"
                    THEN /\ Commit(t, [task EXCEPT !.idx = @ + 1], JobObj(task.job))
                         /\ UNCHANGED db_status
                    ELSE IF result = "malformed"
                    THEN \* all_data.extend(chunk_data) raises TypeError
                         Fail(t, db, "object is not iterable")
                    ELSE /\ Commit(t,
                                   ProgressTask(
                                       [task EXCEPT !.all_data =
                                           IF result = "ok"
                                           THEN extend(task, ChunkCandles(n, task.chunks[n]))
                                           ELSE @],
                                       "upChunk"),
                                   ProgressJob(JobObj(task.job),
                                               ChunkPct(task.i, task.idx, Len(task.chunks))))
                         /\ UNCHANGED db_status
    /\ UNCHANGED <<next_id, active_jobs, progress_callbacks, db_available, db_data,
                   now, was_completed, store_calls, limits, plan, merge>>

\* after the chunk's _update_progress: next result
NextResult(t) ==
    /\ ret' = NoCall
    /\ UpdateDone(t, "upChunk")
    /\ tasks' = [tasks EXCEPT ![t] = [AfterUpdate(@) EXCEPT !.pc = "res", !.idx = @ + 1]]
    /\ UNCHANGED <<jobs, held, next_id, active_jobs, progress_callbacks, db_available,
                   db_status, db_data, now, was_completed, store_calls, limits, plan, merge>>

\* await asyncio.sleep(0.1) returns: next batch, or _update_progress(95)
WakeSleep(t) ==
    /\ ret' = NoCall
    /\ LoopIdle
    /\ tasks[t].pc = "sleep"
    /\ IF tasks[t].must_cancel
       THEN Cancelled(t)
       ELSE /\ LET task == tasks[t]
                   i == task.i + max_parallel_chunks
               IN  IF i < Len(task.chunks)
                   THEN Commit(t, StartBatch(task, i), JobObj(task.job))
                   ELSE Commit(t, ProgressTask(task, "up95"), ProgressJob(JobObj(task.job), 95))
            /\ UNCHANGED <<next_id, active_jobs, progress_callbacks, db_available, db_status,
                           db_data, now, was_completed, store_calls, limits, plan, merge>>

\* after _update_progress(95): unique_data = _process_data(all_data), _update_progress(98)
Process(t) ==
    /\ ret' = NoCall
    /\ UpdateDone(t, "up95")
    /\ Commit(t, ProgressTask([AfterUpdate(tasks[t]) EXCEPT
                                  !.unique_data = _process_data(tasks[t].all_data),
                                  !.all_data = <<>>], "up98"),
              ProgressJob(JobObj(tasks[t].job), 98))
    /\ UNCHANGED <<next_id, active_jobs, progress_callbacks, db_available, db_status, db_data,
                   now, was_completed, store_calls, limits, plan, merge>>

\* variant: the try around store_job_data is missing
storage_success_unguarded(outcome) == outcome

\* try: storage_success = get_historical_db().store_job_data(...)
\* except Exception: logged, "continue with job completion"
storage_success(outcome) == IF outcome = "raises" THEN "false" ELSE outcome

\* after _update_progress(98): store_job_data, complete the job, _update_progress(100)
Complete(t, db_store, db_update) ==
    /\ ret' = NoCall
    /\ UpdateDone(t, "up98")
    /\ LET j == tasks[t].job
           unique_data == tasks[t].unique_data
           stored == storage_success(db_store)
           job == [JobObj(j) EXCEPT !.result_data = unique_data, !.status = COMPLETED,
                                    !.completed_at = now]
       IN  /\ store_calls' = store_calls \cup {j}
           /\ IF stored = "raises"
              THEN \* the exception reaches `except Exception` of _execute_job
                   /\ Fail(t, db_update, "storage")
                   /\ UNCHANGED <<db_data, was_completed>>
              ELSE /\ db_data' = Logged(stored, store_job_data_rows(db_data, j, unique_data),
                                        db_data)
                   /\ db_status' =
                         LET st == Logged(stored, store_job_data_status(db_status, j, unique_data),
                                          db_status)
                         IN  Logged(db_update, update_job_status(st, j, COMPLETED), st)
                   /\ was_completed' = was_completed \cup {j}
                   \* store_job_data(..., chunks_fetched=chunk_num - 1, ...)
                   /\ Commit(t, ProgressTask([AfterUpdate(tasks[t]) EXCEPT
                                                 !.chunks_fetched = tasks[t].chunk_num - 1],
                                             "up100"),
                             ProgressJob(job, 100))
    /\ UNCHANGED <<next_id, active_jobs, progress_callbacks, db_available, now, limits, plan, merge>>

\* after the last _update_progress (100, or 0 "Failed"): finally
Finish(t) ==
    /\ ret' = NoCall
    /\ \/ UpdateDone(t, "up100")
       \/ UpdateDone(t, "upFail")
    /\ Finally(t, "done")
    /\ UNCHANGED <<jobs, next_id, progress_callbacks, db_available, db_status, db_data, now,
                   was_completed, store_calls, limits, plan, merge>>

----------------------------------------------------------------------------
\* The sequential chunked fetch of HistoricalDataManager (src/managers.py)

\* HistoricalDataManager._calculate_chunk_duration, in seconds
manager_calculate_chunk_duration(interval) ==
    IF interval = "1second" THEN safe_candles
    ELSE IF interval = "1minute" THEN 3 * Day
    ELSE IF interval = "5minute" THEN 15 * Day
    ELSE IF interval = "30minute" THEN 90 * Day
    ELSE IF interval = "1day" THEN 950 * Day
    ELSE 30 * Day

\* variant: the exception of the upstream request is not caught
_get_single_data_rethrows(outcome) == IF outcome = "raise" THEN "exception" ELSE outcome

\* _get_single_data: the upstream response, or None when the request raised
_get_single_data(outcome) == IF outcome = "raise" THEN "none" ELSE outcome

\* the while loop of _get_chunked_data, one iteration per unfolding;
\* responses[n] is what upstream does with the request of chunk number n
RECURSIVE ChunkedLoop(_, _, _, _, _)
ChunkedLoop(current_start, end_dt, chunk_duration, chunk_num, responses) ==
    IF current_start < end_dt
    THEN LET current_end == Min(current_start + chunk_duration, end_dt)
             chunk == <<current_start, current_end>>
             chunk_response == _get_single_data(responses[chunk_num])
             rest == ChunkedLoop(current_end, end_dt, chunk_duration, chunk_num + 1,
                                 responses)
         IN  IF chunk_response \in {"exception", "malformed"}
             THEN \* the exception, or the TypeError of all_data.extend, ends the loop
                  [raised |-> TRUE, chunks |-> <<chunk>>, all_data |-> <<>>,
                   chunk_num |-> chunk_num]
             ELSE [raised |-> rest.raised,
                   chunks |-> <<chunk>> \o rest.chunks,
                   all_data |-> (IF chunk_response = "ok"
                                 THEN ChunkCandles(chunk_num, chunk) ELSE <<>>)
                                    \o rest.all_data,
                   chunk_num |-> rest.chunk_num]
    ELSE [raised |-> FALSE, chunks |-> <<>>, all_data |-> <<>>, chunk_num |-> chunk_num]

\* _get_chunked_data: the loop, then the same dedupe and sort, inline
_get_chunked_data(interval, start_dt, end_dt, responses) ==
    LET loop == ChunkedLoop(start_dt, end_dt, manager_calculate_chunk_duration(interval),
                            1, responses)
    IN  IF loop.raised
        THEN [Success |-> <<>>, Status |-> 500, chunks |-> loop.chunks, chunks_fetched |-> 0]
        ELSE [Success |-> IF loop.all_data # <<>>
                          THEN SortByDatetime(Dedupe(loop.all_data, {})) ELSE <<>>,
              Status |-> 200, chunks |-> loop.chunks,
              chunks_fetched |-> loop.chunk_num - 1]

----------------------------------------------------------------------------
\* The engine

PlanIdle == [interval |-> "1second", start |-> 0, end |-> 0, span |-> 1, chunks |-> <<>>,
             estimates |-> <<>>, estimated_candles |-> 0, done |-> FALSE]

MergeIdle == [input |-> <<>>, out |-> <<>>, again |-> <<>>, done |-> FALSE]

\* The runs are bounded scenario by scenario, so that the bounds add up
\* instead of multiplying.  With two chunks: a job that is started again, with
\* a clock and the cleanup; a job run once, with a callback, a clock and the
\* cleanup; a job that is started again, with a callback; a job that is
\* started again while every persistence call can fail on its own.  A job of
\* many chunks, run once, where every chunk can fail.  Two jobs without chunks,
\* one of them run, with callbacks, a clock and the cleanup; two such jobs,
\* both run.  A job of more chunks than one batch holds, whose fetches all
\* succeed.  With one chunk: a job started again and again, with a clock and
\* the cleanup; a job run once, with callbacks, a longer clock and the cleanup
Scenarios ==
    { [jobs |-> 1, tasks |-> 2, chunks |-> 2, callbacks |-> 0, clock |-> 1,
       flaky_db |-> FALSE, upstream |-> FetchOutcomes],
      [jobs |-> 1, tasks |-> 1, chunks |-> 2, callbacks |-> 1, clock |-> 1,
       flaky_db |-> FALSE, upstream |-> FetchOutcomes],
      [jobs |-> 1, tasks |-> 2, chunks |-> 2, callbacks |-> 1, clock |-> 0,
       flaky_db |-> FALSE, upstream |-> FetchOutcomes],
      [jobs |-> 1, tasks |-> 2, chunks |-> 2, callbacks |-> 0, clock |-> 0,
       flaky_db |-> TRUE, upstream |-> FetchOutcomes],
      [jobs |-> 1, tasks |-> 1, chunks |-> MaxChunks, callbacks |-> 0, clock |-> 0,
       flaky_db |-> FALSE, upstream |-> FetchOutcomes],
      [jobs |-> 2, tasks |-> 1, chunks |-> 0, callbacks |-> 2, clock |-> 1,
       flaky_db |-> FALSE, upstream |-> FetchOutcomes],
      [jobs |-> 2, tasks |-> 2, chunks |-> 0, callbacks |-> 0, clock |-> 1,
       flaky_db |-> FALSE, upstream |-> FetchOutcomes],
      [jobs |-> 1, tasks |-> 1, chunks |-> max_parallel_chunks + 1, callbacks |-> 0,
       clock |-> 0, flaky_db |-> FALSE, upstream |-> {"ok"}],
      [jobs |-> 1, tasks |-> MaxTasks, chunks |-> 1, callbacks |-> 0, clock |-> 1,
       flaky_db |-> FALSE, upstream |-> FetchOutcomes],
      [jobs |-> 1, tasks |-> 1, chunks |-> 1, callbacks |-> MaxCallbacks,
       clock |-> MaxClock, flaky_db |-> FALSE, upstream |-> FetchOutcomes] }

\* A manager just constructed: no job, no task, no callback
EngineIdle ==
    /\ jobs = EmptyDict
    /\ held = EmptyDict
    /\ next_id = 0
    /\ active_jobs = EmptyDict
    /\ progress_callbacks = EmptyDict
    /\ tasks = <<>>
    /\ db_status = EmptyDict
    /\ db_data = EmptyDict
    /\ now = 0
    /\ ret = NoCall
    /\ was_completed = {}
    /\ store_calls = {}

InitEngine ==
    /\ limits \in Scenarios
    /\ db_available \in BOOLEAN
    /\ EngineIdle

\* The pure functions are run on their own with the manager left idle
InitUnused ==
    /\ limits = [jobs |-> 0, tasks |-> 0, chunks |-> 0, callbacks |-> 0, clock |-> 0,
                 flaky_db |-> FALSE, upstream |-> {}]
    /\ db_available = FALSE
    /\ EngineIdle

Init ==
    /\ InitEngine
    /\ plan = PlanIdle
    /\ merge = MergeIdle

\* outcomes of a persistence call in this run
PersistenceOutcomes == IF limits.flaky_db THEN DbOutcomes ELSE {"ok"}

\* outcomes of a chunk fetch in this run
UpstreamOutcomes == limits.upstream

\* ids a caller can pass: the ids handed out so far, and 0, an id never handed out
CallerIds == 0..next_id

Next ==
    \/ \E req \in Requests, db \in PersistenceOutcomes : create_job(req, db)
    \/ \E j \in CallerIds, db \in PersistenceOutcomes : start_job(j, db)
    \/ \E j \in CallerIds, db \in PersistenceOutcomes : cancel_job(j, db)
    \/ \E j \in CallerIds : add_progress_callback(j)
    \/ \E max_age \in 0..limits.clock : cleanup_old_jobs(max_age)
    \/ Tick
    \/ \E t \in TaskIds : ExecStart(t)
    \/ \E t \in TaskIds, behaviour \in CallbackBehaviours : InvokeCallback(t, behaviour)
    \/ \E t \in TaskIds : ResumeCallback(t)
    \/ \E t \in TaskIds, db \in PersistenceOutcomes : Plan(t, db)
    \/ \E t \in TaskIds : FirstBatch(t)
    \/ \E t \in TaskIds, k \in 1..max_parallel_chunks, outcome \in UpstreamOutcomes :
          FetchSettle(t, k, outcome)
    \/ \E t \in TaskIds : GatherDone(t)
    \/ \E t \in TaskIds, db \in PersistenceOutcomes : ProcessResult(t, db)
    \/ \E t \in TaskIds : NextResult(t)
    \/ \E t \in TaskIds : WakeSleep(t)
    \/ \E t \in TaskIds : Process(t)
    \/ \E t \in TaskIds, db_store, db_update \in PersistenceOutcomes : Complete(t, db_store, db_update)
    \/ \E t \in TaskIds : Finish(t)

Spec == Init /\ [][Next]_vars

----------------------------------------------------------------------------
\* The chunk planner on its own: every range and span within the bounds, and
\* the spans of the table with ranges of half-span steps

Intervals == {"1second", "1minute", "5minute", "30minute", "1day", "1week"}

PlannerInputs ==
    { [PlanIdle EXCEPT !.start = s, !.end = s + n, !.span = d] :
          s \in 0..MaxPlanStart, n \in 0..MaxPlanLen, d \in 1..MaxPlanSpan }
    \cup
    { [PlanIdle EXCEPT !.interval = iv,
                       !.end = (n * _calculate_chunk_duration(iv)) \div 2,
                       !.span = _calculate_chunk_duration(iv)] :
          iv \in Intervals, n \in 1..MaxPlanLen }

InitPlanner ==
    /\ InitUnused
    /\ plan \in PlannerInputs
    /\ merge = MergeIdle

\* the chunks of the range, the estimate of each chunk, and the estimate of
\* the whole range (get_data: total_duration = end_dt - start_dt)
RunPlanner ==
    /\ ~plan.done
    /\ LET chunks == _generate_chunks(plan.start, plan.end, plan.span)
       IN  plan' = [plan EXCEPT
                       !.chunks = chunks,
                       !.estimates = [k \in 1..Len(chunks) |->
                                         _estimate_candles(plan.interval,
                                                           chunks[k][2] - chunks[k][1])],
                       !.estimated_candles = _estimate_candles(plan.interval,
                                                               plan.end - plan.start),
                       !.done = TRUE]
    /\ UNCHANGED <<engine_vars, merge>>

SpecPlanner == InitPlanner /\ [][RunPlanner]_vars

----------------------------------------------------------------------------
\* The merge stage on its own: every list of candles within the bounds

Candles == [datetime : {NoDt} \cup 1..MaxMergeDt, src : 1..2]

RECURSIVE SeqsUpTo(_, _)
SeqsUpTo(S, n) ==
    IF n = 0 THEN {<<>>}
    ELSE LET shorter == SeqsUpTo(S, n - 1)
         IN  shorter \cup {Append(q, x) : q \in {r \in shorter : Len(r) = n - 1}, x \in S}

InitMerge ==
    /\ InitUnused
    /\ plan = PlanIdle
    /\ merge \in {[input |-> X, out |-> <<>>, again |-> <<>>, done |-> FALSE] :
                     X \in SeqsUpTo(Candles, MaxMergeLen)}

RunMerge ==
    /\ ~merge.done
    /\ merge' = [merge EXCEPT !.out = _process_data(merge.input),
                              !.again = _process_data(_process_data(merge.input)),
                              !.done = TRUE]
    /\ UNCHANGED <<engine_vars, plan>>

SpecMerge == InitMerge /\ [][RunMerge]_vars

----------------------------------------------------------------------------
\* Properties of the job life cycle

\* C1: a job whose status is CANCELLED has never held status COMPLETED, and
\* its data has never been handed to store_job_data
C1_CancelledNeverCompletedNorStored ==
    \A j \in DOMAIN jobs :
        jobs[j].status = CANCELLED => j \notin was_completed /\ j \notin store_calls

\* C2: terminal states are final: a step never changes the status of a job
\* of the registry that is COMPLETED, FAILED or CANCELLED
C2_TerminalStatusFinal ==
    [][\A j \in DOMAIN jobs :
          (jobs[j].status \in Terminal /\ j \in DOMAIN jobs')
              => jobs'[j].status = jobs[j].status]_vars

\* C3: result_data is non-empty only if the job is COMPLETED and its
\* candles_fetched is greater than 0
C3_ResultOnlyWhenCompleted ==
    \A j \in DOMAIN jobs :
        jobs[j].result_data # <<>>
            => jobs[j].status = COMPLETED /\ jobs[j].candles_fetched > 0

NoTwoExecutors == \A j \in 0..next_id : Cardinality(LiveTasksOf(j)) <= 1

\* C4: start_job on an id that is not in the registry or that is in
\* active_jobs returns false and changes neither jobs, tasks, registrations
\* nor persisted rows; and no job ever has two executor tasks that have not ended
C4_StartJobRefusesUnknownAndActive ==
    /\ [][(/\ ret'.op = "start_job"
           /\ \/ ret'.job_id \notin DOMAIN jobs
              \/ ret'.job_id \in DOMAIN active_jobs)
              => /\ ret'.value = FALSE
                 /\ UNCHANGED <<jobs, held, tasks, active_jobs, progress_callbacks,
                                db_status, db_data>>]_vars
    /\ []NoTwoExecutors

\* start_job has just refused a job whose executor is registered and has not ended
C4_Witness ==
    /\ ret.op = "start_job"
    /\ ~ret.value
    /\ ret.job_id \in DOMAIN jobs
    /\ ret.job_id \in DOMAIN active_jobs
    /\ LiveTasksOf(ret.job_id) = {active_jobs[ret.job_id]}

----------------------------------------------------------------------------
\* Properties of the chunk planner

CeilDiv(a, b) == (a + b - 1) \div b

\* C7: for start < end and a positive span the chunks partition [start, end):
\* first start, contiguity, last end, no empty chunk, full spans except a
\* possibly shorter last chunk, and ceil((end - start) / span) chunks
C7_ChunksPartitionRange ==
    (plan.done /\ plan.start < plan.end /\ plan.span > 0)
        => LET chunks == plan.chunks
               n == Len(chunks)
           IN  /\ n = CeilDiv(plan.end - plan.start, plan.span)
               /\ n >= 1
               /\ chunks[1][1] = plan.start
               /\ chunks[n][2] = plan.end
               /\ \A k \in 1..n : chunks[k][1] < chunks[k][2]
               /\ \A k \in 1..(n - 1) :
                     /\ chunks[k][2] = chunks[k + 1][1]
                     /\ chunks[k][2] - chunks[k][1] = plan.span
               /\ chunks[n][2] - chunks[n][1] <= plan.span

\* 9 days of 1minute data were planned: 3 chunks of 3 days
C7_Witness ==
    /\ plan.done
    /\ plan.span = _calculate_chunk_duration("1minute")
    /\ plan.start = 0
    /\ plan.end = 9 * Day
    /\ plan.chunks = << <<0, 3 * Day>>, <<3 * Day, 6 * Day>>, <<6 * Day, 9 * Day>> >>

----------------------------------------------------------------------------
\* Properties of the merge stage

\* C8: merge is idempotent: _process_data(_process_data(X)) = _process_data(X)
C8_MergeIdempotent == merge.done => merge.again = merge.out

\* a list with a repeated timestamp out of order was merged
C8_Witness ==
    /\ merge.done
    /\ Len(merge.input) = 3
    /\ Len(merge.out) = 2
    /\ merge.input[1].datetime > merge.input[2].datetime
    /\ merge.input[3].datetime = merge.input[1].datetime
    /\ merge.again = merge.out

\* C9: the merge output is strictly ascending by timestamp, so no timestamp
\* occurs twice
C9_MergeStrictlyAscending ==
    merge.done
        => /\ \A k \in 1..Len(merge.out) : merge.out[k].datetime # NoDt
           /\ \A k \in 1..(Len(merge.out) - 1) :
                 merge.out[k].datetime < merge.out[k + 1].datetime

\* two candles of different chunks with the same timestamp were merged with a later one
C9_Witness ==
    /\ merge.done
    /\ \E a, b \in 1..Len(merge.input) :
          /\ a < b
          /\ merge.input[a].datetime = merge.input[b].datetime
          /\ merge.input[a].datetime # NoDt
          /\ merge.input[a].src # merge.input[b].src
    /\ Len(merge.out) = 2
    /\ merge.out[1].datetime < merge.out[2].datetime

----------------------------------------------------------------------------
\* Properties of the executor

\* the candles of the chunks whose fetch succeeded, in chunk order
RECURSIVE SuccessfulCandles(_, _)
SuccessfulCandles(task, n) ==
    IF n = 0 THEN <<>>
    ELSE SuccessfulCandles(task, n - 1)
            \o (IF n \in task.ok_chunks THEN ChunkCandles(n, task.chunks[n]) ELSE <<>>)

\* C10: a chunk whose fetch raises, returns nothing or returns an error is
\* handed to the executor as a value, never as an exception; every chunk is
\* still issued; the job is not FAILED because of it (only for a date that does
\* not parse or a response that is not of the upstream format); and the job
\* completes with exactly the merge of the candles of the successful chunks
C10_FailedChunksOmitted ==
    /\ \A t \in TaskIds :
          /\ \A k \in 1..Len(tasks[t].results) : tasks[t].results[k] # "exception"
          /\ tasks[t].pc \in {"up95", "up98", "up100"}
                => tasks[t].chunk_num = Len(tasks[t].chunks)
          /\ tasks[t].pc = "up100"
                => /\ JobObj(tasks[t].job).result_data
                         = _process_data(SuccessfulCandles(tasks[t], Len(tasks[t].chunks)))
                   /\ ~tasks[t].must_cancel => JobObj(tasks[t].job).status = COMPLETED
    /\ \A j \in DOMAIN jobs :
          jobs[j].status = FAILED
             => jobs[j].error_message \in {"Invalid isoformat string", "object is not iterable"}

\* a job of MaxChunks chunks completed with exactly one chunk failed
C10_Witness ==
    \E t \in TaskIds :
        /\ tasks[t].pc = "up100"
        /\ Len(tasks[t].chunks) = MaxChunks
        /\ Cardinality(tasks[t].ok_chunks) = MaxChunks - 1
        /\ JobObj(tasks[t].job).status = COMPLETED
        /\ Len(JobObj(tasks[t].job).result_data) > 0

----------------------------------------------------------------------------
\* Properties of the error handling

\* C11: whatever the persistence calls do (perform, report failure, raise),
\* create_job returns the id of a PENDING job of the registry, start_job on a
\* job of the registry without an executor returns true, sets it RUNNING and
\* schedules its executor, and an executor that reaches the persistence
\* hand-off completes the job with the merged series and never fails it
C11_PersistenceFailureHarmless ==
    /\ [][(ret'.op = "create_job"
              => /\ ret'.value
                 /\ ret'.job_id \in (DOMAIN jobs') \ (DOMAIN jobs)
                 /\ jobs'[ret'.job_id].status = PENDING)
          /\ ((/\ ret'.op = "start_job"
               /\ ret'.job_id \in DOMAIN jobs
               /\ ret'.job_id \notin DOMAIN active_jobs)
              => /\ ret'.value
                 /\ jobs'[ret'.job_id].status = RUNNING
                 /\ ret'.job_id \in DOMAIN active_jobs'
                 /\ tasks'[active_jobs'[ret'.job_id]] = NewTask(ret'.job_id))
          /\ (\A t \in TaskIds :
                 (tasks[t].pc = "up98" /\ tasks'[t].pc # "up98" /\ ~tasks[t].must_cancel)
                    => /\ tasks'[t].pc = "up100"
                       /\ JobObj(tasks[t].job)'.status = COMPLETED
                       /\ JobObj(tasks[t].job)'.result_data = tasks[t].unique_data)]_vars
    /\ [](\A t \in TaskIds :
            tasks[t].pc = "upFail" => JobObj(tasks[t].job).error_message # "storage")

\* a job completed with candles although, with a database at hand, neither
\* its metadata nor its data were stored
C11_Witness ==
    \E t \in TaskIds :
        /\ db_available
        /\ tasks[t].pc = "up100"
        /\ JobObj(tasks[t].job).status = COMPLETED
        /\ JobObj(tasks[t].job).result_data # <<>>
        /\ tasks[t].job \notin DOMAIN db_status
        /\ tasks[t].job \notin DOMAIN db_data

\* C12: an executor whose dates do not parse, or that meets a response whose
\* 'Success' is not a list, takes the except clause; the step that takes it
\* finds the job RUNNING and leaves it FAILED with error_message set and
\* completed_at stamped, hands nothing to store_job_data and leaves result_data
\* and the stored rows as they were; and when that executor ends, the job has
\* left active_jobs
C12_JobLevelFailure ==
    [][\A t \in TaskIds :
          LET j == tasks[t].job
          IN  /\ (/\ tasks[t].pc = "up0"
                  /\ tasks'[t].pc \notin {"up0", "cancelled"}
                  /\ ~DatesParse(JobObj(j)))
                 => tasks'[t].pc = "upFail"
              /\ (/\ tasks[t].pc = "res"
                  /\ tasks[t].idx < Len(tasks[t].results)
                  /\ tasks[t].results[tasks[t].idx + 1] = "malformed"
                  /\ tasks'[t] # tasks[t])
                 => tasks'[t].pc = "upFail"
              /\ (tasks[t].pc # "upFail" /\ tasks'[t].pc = "upFail")
                 => /\ JobObj(j).status = RUNNING
                    /\ JobObj(j)'.status = FAILED
                    /\ JobObj(j)'.error_message # NoError
                    /\ JobObj(j)'.completed_at = now
                    /\ JobObj(j)'.result_data = JobObj(j).result_data
                    /\ UNCHANGED <<db_data, store_calls, was_completed>>
              /\ (tasks[t].pc = "upFail" /\ tasks'[t].pc \in {"done", "cancelled"})
                 => j \notin DOMAIN active_jobs']_vars

\* the executor of a job with an unparseable date has ended: the job is FAILED
\* and out of active_jobs
C12_Witness ==
    \E t \in TaskIds :
        /\ tasks[t].pc = "done"
        /\ tasks[t].job \in DOMAIN jobs
        /\ ~DatesParse(jobs[tasks[t].job])
        /\ jobs[tasks[t].job].status = FAILED
        /\ jobs[tasks[t].job].error_message = "Invalid isoformat string"
        /\ jobs[tasks[t].job].completed_at # NoTime
        /\ jobs[tasks[t].job].result_data = <<>>
        /\ tasks[t].job \notin DOMAIN active_jobs

\* C13: no job of the registry, and no job with a persisted metadata row, has
\* a date that does not parse or a from_date that is not earlier than its to_date
C13_NoJobWithMalformedRange ==
    \A j \in DOMAIN jobs :
        /\ DatesParse(jobs[j])
        /\ jobs[j].from_date < jobs[j].to_date

----------------------------------------------------------------------------
\* Properties of the progress reports

\* C14: the percentage of a job is always between 0 and 100, and no step
\* lowers it
C14_PercentageMonotone ==
    [][\A j \in (DOMAIN jobs) \cap (DOMAIN jobs') :
          /\ jobs'[j].percentage \in 0..100
          /\ jobs'[j].percentage >= jobs[j].percentage]_vars

\* this step begins an invocation `await callback(job)` in task t
Invokes(t) ==
    /\ tasks[t].pc \in UpdateSites
    /\ tasks'[t].pc = tasks[t].pc
    /\ ~tasks[t].cbwait
    /\ tasks'[t].cbwait \/ tasks'[t].cb = tasks[t].cb + 1

C16_CallbacksRemovedOnTerminal ==
    \A j \in DOMAIN jobs :
        (/\ jobs[j].status \in Terminal
         /\ j \notin DOMAIN active_jobs
         /\ LiveTasksOf(j) = {})
            => j \notin DOMAIN progress_callbacks

----------------------------------------------------------------------------
\* Properties of the housekeeping

\* C17: a step that removes jobs from the registry removes, for some max_age,
\* exactly the jobs that are terminal with a completion time older than
\* now - max_age, and the callback lists of exactly those jobs; every job that
\* stays is unchanged, so no PENDING or RUNNING job is removed, and active_jobs,
\* the ids handed out and the persisted rows are unchanged
C17_CleanupRemovesExactlyOldTerminal ==
    [][LET removed == (DOMAIN jobs) \ (DOMAIN jobs')
       IN  removed # {}
              => /\ \E max_age \in 0..limits.clock :
                       removed = {j \in DOMAIN jobs :
                                     /\ jobs[j].status \in Terminal
                                     /\ jobs[j].completed_at # NoTime
                                     /\ jobs[j].completed_at < now - max_age}
                 /\ \A j \in removed : jobs[j].status \notin {PENDING, RUNNING}
                 /\ \A j \in DOMAIN jobs' : j \in DOMAIN jobs /\ jobs'[j] = jobs[j]
                 /\ progress_callbacks' =
                       [j \in (DOMAIN progress_callbacks) \ removed |-> progress_callbacks[j]]
                 /\ UNCHANGED <<active_jobs, next_id, db_status, db_data, now>>]_vars

\* of two jobs one was removed from the registry with its callbacks, while the
\* other, not started, stays with its callback
C17_Witness ==
    \E r, j \in 1..next_id :
        /\ r \notin DOMAIN jobs
        /\ r \notin DOMAIN progress_callbacks
        /\ j \in DOMAIN jobs
        /\ jobs[j].status = PENDING
        /\ j \in DOMAIN progress_callbacks

----------------------------------------------------------------------------
\* Properties of the estimate

\* C18: when a range is planned with the span of its interval's table entry,
\* the estimated candle count of every planned chunk is at most 950
C18_ChunkEstimateWithinLimit ==
    (plan.done /\ plan.span = _calculate_chunk_duration(plan.interval))
        => \A k \in 1..Len(plan.estimates) : plan.estimates[k] <= safe_candles

\* 135 days of 30minute data were planned: a chunk of 90 days estimated at 803
\* candles and a chunk of 45 days estimated at 401
C18_Witness ==
    /\ plan.done
    /\ plan.interval = "30minute"
    /\ plan.span = 90 * Day
    /\ plan.chunks = << <<0, 90 * Day>>, <<90 * Day, 135 * Day>> >>
    /\ plan.estimates = <<803, 401>>

----------------------------------------------------------------------------
\* Properties of the batches

\* chunk fetches of task t that have been issued and have not settled
InFlight(t) == {k \in 1..Len(tasks[t].results) : tasks[t].results[k] = "inflight"}

\* C19: chunk fetches are in flight only while the executor waits for their
\* batch; the batch being waited for is the next max_parallel_chunks chunks in
\* chunk order, all earlier chunks having been issued and settled and no later
\* one issued; so at most max_parallel_chunks fetches of a job are in flight
C19_BatchesInOrder ==
    /\ \A t \in TaskIds :
          /\ Cardinality(InFlight(t)) <= max_parallel_chunks
          /\ tasks[t].pc # "gather" => InFlight(t) = {}
          /\ tasks[t].pc \in {"gather", "res"}
                => /\ tasks[t].i % max_parallel_chunks = 0
                   /\ Len(tasks[t].results)
                         = Min(max_parallel_chunks, Len(tasks[t].chunks) - tasks[t].i)
                   /\ tasks[t].chunk_num = tasks[t].i + Len(tasks[t].results)
    /\ \A j \in 1..next_id :
          Cardinality({t \in TaskIds : tasks[t].job = j /\ InFlight(t) # {}}) <= 1

\* the second batch of a job of 11 chunks is in flight: the 10 chunks of the
\* first batch were issued before it and the 11th alone is waited for
C19_Witness ==
    \E t \in TaskIds :
        /\ tasks[t].pc = "gather"
        /\ Len(tasks[t].chunks) = max_parallel_chunks + 1
        /\ tasks[t].i = max_parallel_chunks
        /\ tasks[t].chunk_num = max_parallel_chunks + 1
        /\ InFlight(t) = {1}
        /\ Len(tasks[t].all_data) = 2 * max_parallel_chunks

----------------------------------------------------------------------------
\* Properties of the scheduling

\* the executor task t has begun and has not ended, and is neither waiting for
\* a batch nor in the pause between batches
MidStretch(t) == tasks[t].pc \notin {"start", "gather", "sleep", "done", "cancelled"}

\* C20: a registry operation (create_job, start_job, cancel_job,
\* add_progress_callback, cleanup_old_jobs) runs, and a cancellation is
\* delivered to an executor that has begun, only while every executor that has
\* begun and not ended waits for a batch or is in the inter-batch pause
C20_SuspendsOnlyAtFetchAndPause ==
    [][/\ (\/ ret'.op # "none"
           \/ progress_callbacks' # progress_callbacks
           \/ DOMAIN jobs' # DOMAIN jobs)
          => \A t \in TaskIds : ~MidStretch(t)
       /\ \A t \in TaskIds :
             (tasks[t].pc # "cancelled" /\ tasks'[t].pc = "cancelled")
                => ~MidStretch(t)]_vars

----------------------------------------------------------------------------
\* Properties of the decision to chunk

\* C21: a range whose whole-range estimate is at most 950 is planned by the
\* executor (span of the interval's table entry) as exactly one chunk, so
\* several chunks are planned only when the estimate exceeds 950
C21_SingleChunkUnlessEstimateExceeds ==
    (/\ plan.done
     /\ plan.span = _calculate_chunk_duration(plan.interval)
     /\ plan.estimated_candles <= safe_candles)
        => Len(plan.chunks) = 1

----------------------------------------------------------------------------
\* Properties of the chunk spans on the calendar

\* the hard limit of candles per upstream request
hard_limit == 1000

\* the market session opens at 9:15, seconds after midnight
session_open == 33300

\* Market seconds inside [from, to): time 0 is a Monday 00:00, every weekday
\* has one session of market_seconds_per_day seconds, weekend days have none
RECURSIVE MarketSeconds(_, _)
MarketSeconds(from, to) ==
    IF from >= to THEN 0
    ELSE LET day == from \div Day
             next == Min((day + 1) * Day, to)
             open == day * Day + session_open
             close == open + market_seconds_per_day
             first == IF from > open THEN from ELSE open
             last == Min(next, close)
         IN  (IF day % 7 < 5 /\ first < last THEN last - first ELSE 0)
                + MarketSeconds(next, to)

\* candles of the interval inside [from, to)
MarketCandles(interval, from, to) ==
    MarketSeconds(from, to) \div interval_seconds(interval)

\* C22: every chunk planned with the span of its interval's table entry holds
\* fewer than 1000 candles, wherever the planning placed it on the calendar
C22_TableSpanUnderHardLimit ==
    (plan.done /\ plan.span = _calculate_chunk_duration(plan.interval))
        => \A k \in 1..Len(plan.chunks) :
              MarketCandles(plan.interval, plan.chunks[k][1], plan.chunks[k][2]) < hard_limit

----------------------------------------------------------------------------
\* Properties of the progress snapshot

\* C23: while the executor reports the progress of a chunk, the snapshot's
\* candles_fetched is the number of candles accumulated so far from the chunks
\* of the job that have settled
C23_SnapshotCountsAccumulatedCandles ==
    \A t \in TaskIds :
        tasks[t].pc = "upChunk"
            => JobObj(tasks[t].job).candles_fetched = Len(tasks[t].all_data)

----------------------------------------------------------------------------
\* Properties of the progress callbacks

\* the percentage the update of task's position has set
SitePercentage(task) ==
    IF task.pc = "up5" THEN 5
    ELSE IF task.pc = "upChunk" THEN ChunkPct(task.i, task.idx, Len(task.chunks))
    ELSE IF task.pc = "up95" THEN 95
    ELSE IF task.pc = "up98" THEN 98
    ELSE IF task.pc = "up100" THEN 100
    ELSE 0

\* the update of task t begins with the list registered for its job; each
\* invocation passes the job as the update left it and leaves it unchanged; a
\* callback that raises changes neither job nor position and hands over to
\* the next callback
CallbacksServed(t) ==
    LET j == tasks[t].job
    IN  /\ (tasks'[t].pc \in UpdateSites /\ tasks'[t].pc # tasks[t].pc)
              => /\ tasks'[t].cb = 1
                 /\ tasks'[t].cbs = IF j \in DOMAIN progress_callbacks
                                    THEN progress_callbacks[j] ELSE <<>>
        /\ (tasks[t].cblive /\ tasks[t].pc \in UpdateSites)
              => j \in DOMAIN progress_callbacks /\ tasks[t].cbs = progress_callbacks[j]
        /\ Invokes(t)
              => /\ tasks[t].cb \in 1..Len(tasks[t].cbs)
                 /\ JobObj(j).percentage = SitePercentage(tasks[t])
                 /\ JobObj(j)' = JobObj(j)
        /\ tasks'[t].cb_raised \notin {{}, tasks[t].cb_raised}
              => /\ tasks'[t].pc = tasks[t].pc
                 /\ tasks'[t].cb = tasks[t].cb + 1
                 /\ UNCHANGED <<jobs, held, db_status, db_data>>

----------------------------------------------------------------------------
\* Properties of the merge: first occurrence wins

\* position of the first candle of list data that carries timestamp dt
FirstWith(data, dt) ==
    CHOOSE k \in 1..Len(data) :
        /\ data[k].datetime = dt
        /\ \A i \in 1..(k - 1) : data[i].datetime # dt

\* C25: for every timestamp that occurs in the input, the merge output holds
\* exactly one candle of that timestamp, which is the first candle of the
\* input carrying it; and the output holds no other candle
C25_MergeKeepsFirstOfEachTimestamp ==
    merge.done
        => LET input == merge.input
               out == merge.out
               times == {input[k].datetime : k \in 1..Len(input)} \ {NoDt}
           IN  /\ \A dt \in times :
                     /\ Cardinality({k \in 1..Len(out) : out[k].datetime = dt}) = 1
                     /\ \E k \in 1..Len(out) : out[k] = input[FirstWith(input, dt)]
               /\ \A k \in 1..Len(out) : out[k].datetime \in times
               /\ Len(out) = Cardinality(times)

\* a later candle of another chunk repeated the timestamp of the first candle,
\* and a candle without timestamp came in between: the output is the first
\* candle alone
C25_Witness ==
    /\ merge.done
    /\ Len(merge.input) = 3
    /\ merge.input[1].datetime # NoDt
    /\ merge.input[2].datetime = NoDt
    /\ merge.input[3].datetime = merge.input[1].datetime
    /\ merge.input[3].src # merge.input[1].src
    /\ merge.out = <<merge.input[1]>>

----------------------------------------------------------------------------
\* Properties of the completion order

\* C26: whatever order the fetches of a batch settled in, the candles handed
\* to the merge are those of the successful chunks in chunk order, and the
\* series of the completed job is their merge: it depends on the responses only
C26_ResultIndependentOfCompletionOrder ==
    \A t \in TaskIds :
        LET in_chunk_order == SuccessfulCandles(tasks[t], Len(tasks[t].chunks))
        IN  /\ tasks[t].pc = "up95" => tasks[t].all_data = in_chunk_order
            /\ tasks[t].pc = "up98" => tasks[t].unique_data = _process_data(in_chunk_order)
            /\ (tasks[t].pc = "up100" /\ JobObj(tasks[t].job).status = COMPLETED)
                  => JobObj(tasks[t].job).result_data = _process_data(in_chunk_order)

\* a job of two chunks completed after the fetch of its second chunk settled
\* before that of its first: of the two candles at the common boundary the
\* series holds the one of the first chunk
C26_Witness ==
    \E t \in TaskIds :
        /\ tasks[t].pc = "up100"
        /\ tasks[t].out_of_order
        /\ tasks[t].ok_chunks = {1, 2}
        /\ JobObj(tasks[t].job).status = COMPLETED
        /\ Len(JobObj(tasks[t].job).result_data) = 3
        /\ JobObj(tasks[t].job).result_data[2] = [datetime |-> tasks[t].chunks[1][2], src |-> 1]

----------------------------------------------------------------------------
\* Termination of the executor

\* a step of executor task t
ExecutorStep(t) ==
    /\ t \in TaskIds
    /\ \/ ExecStart(t)
       \/ \E behaviour \in CallbackBehaviours : InvokeCallback(t, behaviour)
       \/ ResumeCallback(t)
       \/ \E db \in PersistenceOutcomes : Plan(t, db)
       \/ FirstBatch(t)
       \/ \E k \in 1..max_parallel_chunks, outcome \in UpstreamOutcomes :
             FetchSettle(t, k, outcome)
       \/ GatherDone(t)
       \/ \E db \in PersistenceOutcomes : ProcessResult(t, db)
       \/ NextResult(t)
       \/ WakeSleep(t)
       \/ Process(t)
       \/ \E db_store, db_update \in PersistenceOutcomes : Complete(t, db_store, db_update)
       \/ Finish(t)

\* one job of one chunk, run once, with a callback, a clock and the cleanup
InitLive ==
    /\ limits = [jobs |-> 1, tasks |-> 1, chunks |-> 1, callbacks |-> 1, clock |-> 1,
                 flaky_db |-> FALSE, upstream |-> FetchOutcomes]
    /\ db_available \in BOOLEAN
    /\ EngineIdle
    /\ plan = PlanIdle
    /\ merge = MergeIdle

\* The event loop runs every task that is ready, and every chunk fetch and
\* every callback returns: a task that can take a step takes one
SpecLive == InitLive /\ [][Next]_vars /\ \A t \in 1..MaxTasks : WF_vars(ExecutorStep(t))

\* C27: a job that has an entry in active_jobs eventually has none, and
\* eventually is terminal (or has left the registry, which only terminal jobs do)
C27_StartedJobEndsAndLeavesActiveJobs ==
    \A j \in 1..MaxTasks :
        /\ (j \in DOMAIN active_jobs) ~> (j \notin DOMAIN active_jobs)
        /\ (j \in DOMAIN active_jobs)
              ~> (j \notin DOMAIN jobs \/ jobs[j].status \in Terminal)

----------------------------------------------------------------------------
\* Referential integrity of the registry

\* C28: every id with an entry in active_jobs or in progress_callbacks is the
\* id of a job of the registry
C28_EntriesBelongToRegisteredJobs ==
    /\ DOMAIN active_jobs \subseteq DOMAIN jobs
    /\ DOMAIN progress_callbacks \subseteq DOMAIN jobs

----------------------------------------------------------------------------
\* The executor against the sequential chunked fetch

\* the per-chunk upstream outcomes a completed run of task can have met: "ok"
\* for the chunks whose fetch returned candles, anything but candles for the others
ResponsesOf(task) ==
    {r \in [1..Len(task.chunks) -> FetchOutcomes \ {"malformed"}] :
        \A n \in 1..Len(task.chunks) : r[n] = "ok" <=> n \in task.ok_chunks}

----------------------------------------------------------------------------
\* Properties of the persistence hand-off

\* C30: the chunks_fetched handed to store_job_data is the number of chunks
\* the executor planned and issued
C30_ChunksFetchedCountsIssuedChunks ==
    \A t \in TaskIds :
        tasks[t].pc = "up100"
            => /\ tasks[t].chunks_fetched = Len(tasks[t].chunks)
               /\ tasks[t].chunks_fetched = tasks[t].chunk_num

====
